---- MODULE Spec2Model ----
(***************************************************************************)
(* Model of the yolo5 worker (src/yolo5/app.py): the consume() loop that   *)
(* receives one SQS message at a time, validates it, downloads the photo,  *)
(* runs the detector, reads the detector's artifacts back from disk,       *)
(* uploads the annotated image, stores a summary in MongoDB, notifies      *)
(* Polybot and deletes the message.                                        *)
(*                                                                         *)
(* Python values are written as the strings of their literals ("None",     *)
(* "''", "0", "7", "'s3://bucket/photos/cat.jpg'"), so that truthiness and *)
(* the str-only method .replace are decided as Python decides them.        *)
(* The clock read by time.time() is the number of messages received.      *)
(***************************************************************************)
EXTENDS Integers, Sequences, FiniteSets, TLC

\* ---------------------------------------------------------------- bounds
\* Number of messages the producer has put in the queue.
MaxMsgs == 1
\* Number of receive_message calls that return a message.
MaxCycles == 2
\* Longest label file (in lines) the detector writes.
MaxLines == 2

MsgIds == 1..MaxMsgs

\* ------------------------------------------------------- python values
None == "None"
Absent == "<absent>"
ValidPath == "'s3://bucket/photos/cat.jpg'"

\* A test that only rejected None (is not None)
Truthy_NotNone(v) == v # "None"

\* bool(v) for the literals used here: None, '' and 0 are falsy.
Truthy(v) == v \notin {"None", "''", "0"}

\* v is a str (has .replace)
IsStr(v) == v \in {"''", ValidPath, "'cat'", "'42'"}

\* all([...]) of line 90
AllTruthy(vs) == \A i \in 1..Len(vs) : Truthy(vs[i])

\* ------------------------------------------------------ message bodies
Keys == {"photo_id", "chat_id", "file_path"}

Dict(p, c, f) == [kind |-> "dict", photo_id |-> p, chat_id |-> c, file_path |-> f]

\* message['Body'] as the producer wrote it: text that is not JSON, JSON
\* that is not an object, or an object with some of the three keys.
Bodies ==
    { [kind |-> "notjson", photo_id |-> Absent, chat_id |-> Absent, file_path |-> Absent],
      [kind |-> "nondict", photo_id |-> Absent, chat_id |-> Absent, file_path |-> Absent],
      Dict("'cat'", "'42'", ValidPath),
      Dict(Absent, "'42'", ValidPath),
      Dict("'cat'", Absent, ValidPath),
      Dict("'cat'", "'42'", Absent),
      Dict("''", "'42'", ValidPath),
      Dict("'cat'", "None", ValidPath),
      Dict("'cat'", "'42'", "0"),
      Dict("'cat'", "'42'", "7") }

\* dict.get(key): None when the key is absent
Get(b, k) == IF b[k] = Absent THEN None ELSE b[k]

\* ------------------------------------------------------- label files
\* Class table loaded at startup (the first entries of data/coco128.yaml).
names == <<"person", "bicycle", "car">>

Car == <<"2", "0.5", "0.5", "0.2", "0.3">>
Person == <<"0", "0.3", "0.2", "0.5", "0.5">>
Short == <<"2", "0.5", "0.5", "0.2">>
NonNum == <<"2", "0.5", "abc", "0.2", "0.3">>
OutOfRange == <<"3", "0.5", "0.5", "0.2", "0.3">>

BadLines == {Short, NonNum, OutOfRange}

\* A file of n well-formed lines: car, person, car, ...
GoodFile(n) == [i \in 1..n |-> IF i % 2 = 1 THEN Car ELSE Person]

\* The files the detector may leave: well-formed ones of every length up
\* to MaxLines, and those whose last line is a malformed one.
LabelFiles ==
    { GoodFile(n) : n \in 0..MaxLines }
    \cup { [GoodFile(n) EXCEPT ![n] = b] : <<n, b>> \in (1..MaxLines) \X BadLines }

\* A label file on disk: absent, or present with its lines.
NoFile == [exists |-> FALSE, lines |-> <<>>]

File(f) == [exists |-> TRUE, lines |-> f]

\* int(tok): defined on decimal integer literals only
IsInt(tok) == tok \in {"0", "1", "2", "3"}
IntOf(tok) == CASE tok = "0" -> 0 [] tok = "1" -> 1 [] tok = "2" -> 2 [] tok = "3" -> 3

\* float(tok), in tenths
IsFloat(tok) == IsInt(tok) \/ tok \in {"0.2", "0.3", "0.5"}
FloatOf(tok) ==
    CASE tok = "0.2" -> 2 [] tok = "0.3" -> 3 [] tok = "0.5" -> 5
      [] OTHER -> 10 * IntOf(tok)

\* The dict comprehension of lines 134-140 evaluates without raising on l.
LineOk(l) ==
    /\ Len(l) >= 5
    /\ IsInt(l[1])
    /\ IntOf(l[1]) < Len(names)
    /\ \A j \in 2..5 : IsFloat(l[j])

\* The dict built from one line
LineLabel(l) ==
    [class |-> names[IntOf(l[1]) + 1],
     cx |-> FloatOf(l[2]), cy |-> FloatOf(l[3]),
     width |-> FloatOf(l[4]), height |-> FloatOf(l[5])]

\* The list comprehension raises as soon as one line raises.
ParseOk(f) == \A i \in 1..Len(f) : LineOk(f[i])

\* A comprehension that built the list back to front
ParseLabels_Reversed(f) == [i \in 1..Len(f) |-> LineLabel(f[Len(f) + 1 - i])]

\* lines 133-140: one dict per line, in the order of the file
ParseLabels(f) == [i \in 1..Len(f) |-> LineLabel(f[i])]

\* The parse block of lines 130-141: labels stays [] when the file is
\* absent, else every line of the file becomes one dict.
ReadLabels(lf) == IF lf.exists THEN ParseLabels(lf.lines) ELSE <<>>

\* A parse block without the exists() test of line 131: open() raises
ReadRaises_NoExistsTest(lf) == ~lf.exists \/ ~ParseOk(lf.lines)

\* That block raises (IndexError, ValueError, KeyError): only on a file
\* that exists and has a line the comprehension cannot convert.
ReadRaises(lf) == lf.exists /\ ~ParseOk(lf.lines)

\* ------------------------------------------------------------- state
VARIABLES
    queue,          \* ids of the messages SQS still holds (not deleted)
    body,           \* id -> message['Body'] as sent
    fs,             \* id -> artifacts under static/data/<id>/
    bucket,         \* ids whose annotated image is in S3 under predicted/<id>/
    db,             \* the predictions collection, in insertion order
    pc,             \* position of consume()
    cycle,          \* number of messages received so far
    message,        \* id of response['Messages'][0] of this cycle (0: none)
    receipt_handle,
    message_body,
    original_img_path,
    uploaded_predicted_img_path,
    labels,
    calls,          \* external calls of the current cycle, in order
    written         \* which artifacts run() wrote in the current cycle

vars == <<queue, body, fs, bucket, db, pc, cycle, message, receipt_handle,
          message_body, original_img_path, uploaded_predicted_img_path,
          labels, calls, written>>

NoHandle == [msg |-> 0, n |-> 0]
NoBody == [kind |-> "none", photo_id |-> Absent, chat_id |-> Absent, file_path |-> Absent]
NoDir == [img |-> FALSE, lbl |-> NoFile]
NoWrite == [img |-> FALSE, lbl |-> FALSE]

Call(op, h, res) == [op |-> op, h |-> h, res |-> res]

\* os.path.join(local_download_path, os.path.basename(object_key))
LocalPath(fp) == IF fp = ValidPath THEN "/photos/tmp/cat.jpg" ELSE "/photos/tmp/"

\* f's3://{images_bucket}/{object_key}' with the key of line 125
RemoteRef(id) == [uri |-> "s3://bucket/predicted", id |-> id]
NoRef == [uri |-> None, id |-> 0]

Init ==
    /\ queue = MsgIds
    /\ body \in [MsgIds -> Bodies]
    /\ fs = [m \in MsgIds |-> NoDir]
    /\ bucket = {}
    /\ db = <<>>
    /\ pc = "poll"
    /\ cycle = 0
    /\ message = 0
    /\ receipt_handle = NoHandle
    /\ message_body = NoBody
    /\ original_img_path = None
    /\ uploaded_predicted_img_path = NoRef
    /\ labels = <<>>
    /\ calls = <<>>
    /\ written = NoWrite

\* The locals as a new iteration of the loop finds them (every one is
\* assigned before it is read, so the old values are never seen).
FreshLocals ==
    /\ receipt_handle' = NoHandle
    /\ message_body' = NoBody
    /\ original_img_path' = None
    /\ uploaded_predicted_img_path' = NoRef
    /\ labels' = <<>>
    /\ written' = NoWrite

LocalsUnchanged ==
    UNCHANGED <<message, receipt_handle, message_body, original_img_path,
                uploaded_predicted_img_path, labels>>

StoresUnchanged == UNCHANGED <<queue, body, fs, bucket, db, cycle>>

\* ----------------------------------------------------------- the loop
\* line 76: receive_message raises (no handler around it)
ReceiveRaises ==
    /\ pc = "poll"
    /\ pc' = "crashed"
    /\ message' = 0
    /\ FreshLocals
    /\ calls' = <<Call("receive", NoHandle, "raise")>>
    /\ StoresUnchanged

\* lines 76-78: the long poll returns without 'Messages'
ReceiveEmpty ==
    /\ pc = "poll"
    /\ pc' = "poll"
    /\ message' = 0
    /\ FreshLocals
    /\ calls' = <<Call("receive", NoHandle, "empty")>>
    /\ StoresUnchanged

\* lines 76-79: the poll returns one message that SQS still holds
ReceiveMessage ==
    /\ pc = "poll"
    /\ cycle < MaxCycles
    /\ \E m \in queue :
         /\ message' = m
         /\ cycle' = cycle + 1
         /\ pc' = "decode"
         /\ FreshLocals
         /\ calls' = <<Call("receive", [msg |-> m, n |-> cycle + 1], "ok")>>
    /\ UNCHANGED <<queue, body, fs, bucket, db>>

\* A loop that kept the handle of the first delivery of the message
HandleOf_First(m, n) == [msg |-> m, n |-> 1]

\* line 81: message['ReceiptHandle'], the handle of delivery n of m
HandleOf(m, n) == [msg |-> m, n |-> n]

\* lines 80-88: json.loads raises on text that is not JSON; .get raises
\* on a JSON value that is not an object (after receipt_handle is set).
Decode ==
    /\ pc = "decode"
    /\ UNCHANGED written
    /\ LET b == body[message] IN
         CASE b.kind = "notjson" ->
                /\ pc' = "crashed"
                /\ UNCHANGED <<message_body, receipt_handle>>
           [] b.kind = "nondict" ->
                /\ pc' = "crashed"
                /\ receipt_handle' = HandleOf(message, cycle)
                /\ UNCHANGED message_body
           [] OTHER ->
                /\ pc' = "validate"
                /\ message_body' = b
                /\ receipt_handle' = HandleOf(message, cycle)
    /\ UNCHANGED <<message, original_img_path, uploaded_predicted_img_path, labels, calls>>
    /\ StoresUnchanged

\* A check that forgot file_path
ValidateOk_NoFilePath(b) ==
    AllTruthy(<<Get(b, "photo_id"), Get(b, "chat_id")>>)

\* line 90
ValidateOk(b) ==
    AllTruthy(<<Get(b, "photo_id"), Get(b, "chat_id"), Get(b, "file_path")>>)

\* sqs_client.delete_message(ReceiptHandle=h): removes the message, or
\* raises; the loop has no handler around it.
DeleteMessage(h) ==
    \/ /\ queue' = queue \ {h.msg}
       /\ pc' = "poll"
       /\ calls' = Append(calls, Call("delete", h, "ok"))
    \/ /\ queue' = queue
       /\ pc' = "crashed"
       /\ calls' = Append(calls, Call("delete", h, "raise"))

\* lines 90-93
Validate ==
    /\ pc = "validate"
    /\ UNCHANGED written
    /\ IF ValidateOk(message_body)
         THEN /\ pc' = "fetch"
              /\ UNCHANGED <<queue, calls>>
         ELSE DeleteMessage(receipt_handle)
    /\ LocalsUnchanged
    /\ UNCHANGED <<body, fs, bucket, db, cycle>>

\* A loop that went on to the detector without looking at the path
AfterFetch_Unchecked(path) == "infer"

\* lines 98-99
AfterFetch(path) == IF path = None THEN "poll" ELSE "infer"

\* lines 95-99: .replace on a file_path that is not a str raises;
\* download_photo_from_s3 returns the local path or None.
Fetch ==
    /\ pc = "fetch"
    /\ UNCHANGED written
    /\ LET fp == Get(message_body, "file_path") IN
         IF ~IsStr(fp)
           THEN /\ pc' = "crashed"
                /\ UNCHANGED <<original_img_path, calls>>
           ELSE \E path \in {LocalPath(fp), None} :
                  /\ original_img_path' = path
                  /\ pc' = AfterFetch(path)
                  /\ calls' = Append(calls, Call("download", NoHandle,
                                     IF path = None THEN "fail" ELSE "ok"))
    /\ UNCHANGED <<message, receipt_handle, message_body,
                   uploaded_predicted_img_path, labels>>
    /\ StoresUnchanged

\* A handler that gave the job up when run() raised
AfterRun_Abandon(raised) == IF raised THEN "poll" ELSE "locate"

\* lines 115-116: the handler only logs; the loop goes on to line 119
AfterRun(raised) == "locate"

\* lines 104-116: run() writes under static/data/<prediction_id>/ and
\* returns or raises; what it had written by then stays on disk.
Infer ==
    /\ pc = "infer"
    /\ \E raised \in BOOLEAN, wimg \in BOOLEAN,
          wlbl \in {NoFile} \cup {File(f) : f \in LabelFiles} :
         /\ fs' = [fs EXCEPT ![message] =
                     [img |-> @.img \/ wimg,
                      lbl |-> IF wlbl.exists THEN wlbl ELSE @.lbl]]
         /\ written' = [img |-> wimg, lbl |-> wlbl.exists]
         /\ calls' = Append(calls, Call("run", NoHandle,
                             IF raised THEN "raise" ELSE "ok"))
         /\ pc' = AfterRun(raised)
    /\ LocalsUnchanged
    /\ UNCHANGED <<queue, body, bucket, db, cycle>>

\* A loop that parsed the labels before uploading the image
AfterLocate_ParseFirst(exists) == IF ~exists THEN "poll" ELSE "parse"

\* A loop that went on although the processed image is missing
AfterLocate_Unchecked(exists) == "upload"

\* lines 121-123
AfterLocate(exists) == IF ~exists THEN "poll" ELSE "upload"

\* lines 119-123
Locate ==
    /\ pc = "locate"
    /\ UNCHANGED written
    /\ pc' = AfterLocate(fs[message].img)
    /\ LocalsUnchanged
    /\ UNCHANGED calls
    /\ StoresUnchanged

\* lines 125-126 with upload_to_s3 (62-71)
Upload ==
    /\ pc = "upload"
    /\ UNCHANGED written
    /\ \/ /\ bucket' = bucket \cup {message}
          /\ uploaded_predicted_img_path' = RemoteRef(message)
          /\ calls' = Append(calls, Call("upload", NoHandle, "ok"))
       \/ /\ bucket' = bucket
          /\ uploaded_predicted_img_path' = NoRef
          /\ calls' = Append(calls, Call("upload", NoHandle, "fail"))
    /\ pc' = "parse"
    /\ UNCHANGED <<message, receipt_handle, message_body, original_img_path, labels>>
    /\ UNCHANGED <<queue, body, fs, db, cycle>>

\* lines 129-141
Parse ==
    /\ pc = "parse"
    /\ UNCHANGED written
    /\ IF ReadRaises(fs[message].lbl)
         THEN /\ pc' = "crashed"
              /\ UNCHANGED labels
         ELSE /\ pc' = "persist"
              /\ labels' = ReadLabels(fs[message].lbl)
    /\ UNCHANGED <<message, receipt_handle, message_body, original_img_path,
                   uploaded_predicted_img_path, calls>>
    /\ StoresUnchanged

\* lines 144-151
PredictionSummary ==
    [prediction_id |-> message,
     original_img_path |-> original_img_path,
     predicted_img_path |-> uploaded_predicted_img_path,
     labels |-> labels,
     time |-> cycle,
     chat_id |-> Get(message_body, "chat_id")]

\* An insert that replaced the record already stored for the same id
InsertOne_Upsert(coll, rec) ==
    IF \E i \in DOMAIN coll : coll[i].prediction_id = rec.prediction_id
      THEN [i \in DOMAIN coll |->
              IF coll[i].prediction_id = rec.prediction_id THEN rec ELSE coll[i]]
      ELSE Append(coll, rec)

\* line 36: insert_one adds the document to the collection
InsertOne(coll, rec) == Append(coll, rec)

\* A loop that gave the job up when the insert failed
AfterPersist_StopOnFail(saved) == IF saved THEN "notify" ELSE "poll"

\* A loop that went back to polling after the insert, message undeleted
AfterPersist_Abandon(saved) == "poll"

\* A loop that went from the insert straight to the delete
AfterPersist_SkipNotify(saved) == "ack"

\* line 153: whatever insert_one did, the loop goes on to notify
AfterPersist(saved) == "notify"

\* lines 144-153 with save_prediction_to_mongo (33-39)
Persist ==
    /\ pc = "persist"
    /\ UNCHANGED written
    /\ \E saved \in BOOLEAN :
         /\ db' = IF saved THEN InsertOne(db, PredictionSummary) ELSE db
         /\ calls' = Append(calls, Call("insert", NoHandle,
                             IF saved THEN "ok" ELSE "fail"))
         /\ pc' = AfterPersist(saved)
    /\ LocalsUnchanged
    /\ UNCHANGED <<queue, body, fs, bucket, cycle>>

Statuses == {"200", "503", "error"}

\* A loop that acknowledged only after a 200
AfterNotify_OnlyOk(status) == IF status = "200" THEN "ack" ELSE "poll"

\* lines 160-165: every outcome of the post is only logged
AfterNotify(status) == "ack"

\* lines 156-165
Notify ==
    /\ pc = "notify"
    /\ UNCHANGED written
    /\ \E status \in Statuses :
         /\ calls' = Append(calls, Call("post", NoHandle, status))
         /\ pc' = AfterNotify(status)
    /\ LocalsUnchanged
    /\ StoresUnchanged

\* line 168
Ack ==
    /\ pc = "ack"
    /\ UNCHANGED written
    /\ DeleteMessage(receipt_handle)
    /\ LocalsUnchanged
    /\ UNCHANGED <<body, fs, bucket, db, cycle>>

\* lines 170-171: the process is started again after it died; disk,
\* queue, bucket and collection are as it left them.
Restart ==
    /\ pc = "crashed"
    /\ pc' = "poll"
    /\ message' = 0
    /\ FreshLocals
    /\ calls' = <<>>
    /\ StoresUnchanged

Next ==
    \/ ReceiveRaises
    \/ ReceiveEmpty
    \/ ReceiveMessage
    \/ Decode
    \/ Validate
    \/ Fetch
    \/ Infer
    \/ Locate
    \/ Upload
    \/ Parse
    \/ Persist
    \/ Notify
    \/ Ack

\* One run of the process: once consume() has raised, nothing more happens.
Spec == Init /\ [][Next]_vars

\* The process under a supervisor that starts it again after it died.
NextSupervised == Next \/ Restart

SpecSupervised == Init /\ [][NextSupervised]_vars

\* ------------------------------------------------- reading the cycle
\* The current cycle made a call of this kind.
Has(op) == \E i \in DOMAIN calls : calls[i].op = op

HasRes(op, res) == \E i \in DOMAIN calls : calls[i].op = op /\ calls[i].res = res

Count(op) == Cardinality({i \in DOMAIN calls : calls[i].op = op})

\* The calls a cycle makes for a job after it was received and validated
NoneOf(ops) == \A op \in ops : ~Has(op)

\* The records stored since the last message was received
SavedNow == {i \in DOMAIN db : db[i].time = cycle}

\* The last call is the delete of this cycle's message
AckedLast ==
    /\ calls # <<>>
    /\ calls[Len(calls)].op = "delete"
    /\ calls[Len(calls)].h = receipt_handle
    /\ receipt_handle = [msg |-> message, n |-> cycle]

\* The label file of this cycle's job is absent or has no line
LabelEmpty == ~fs[message].lbl.exists \/ fs[message].lbl.lines = <<>>

\* ------------------------------------------------------------ claims
\* C1: when download_photo_from_s3 returns no path, the cycle is over at
\* once: no delete_message, run, upload, insert or post is made for the
\* job, and the message is still in the queue, where the next poll can
\* return it.
C1_FetchFailureLeavesMessage ==
    HasRes("download", "fail") =>
        /\ pc = "poll"
        /\ original_img_path = None
        /\ NoneOf({"delete", "run", "upload", "insert", "post"})
        /\ message \in queue
        /\ SavedNow = {}

C1_Witness ==
    /\ HasRes("download", "fail")
    /\ pc = "poll"
    /\ message \in queue
    /\ cycle < MaxCycles

Missing(b) == b.kind = "dict" /\ \E k \in Keys : b[k] = Absent

C3_MissingFieldDiscarded ==
    (Missing(message_body) /\ pc # "validate") =>
        /\ pc \in {"poll", "crashed"}
        /\ Len(calls) = 2
        /\ AckedLast
        /\ NoneOf({"download", "run", "upload", "insert", "post"})
        /\ SavedNow = {}
        /\ (pc = "poll" <=> calls[2].res = "ok")
        /\ (pc = "poll" => message \notin queue)

C3_Witness ==
    /\ Missing(message_body)
    /\ pc = "poll"
    /\ HasRes("delete", "ok")
    /\ message \notin queue

\* C4: a job whose label file has a malformed line does not stop the
\* worker: parsing is given up, labels stay empty and the cycle goes on
\* to persist, notify and acknowledge.
Malformed == fs[message].lbl.exists /\ ~ParseOk(fs[message].lbl.lines)

C4_MalformedLabelsDegrade ==
    (Has("upload") /\ Malformed /\ pc # "parse") =>
        /\ pc # "crashed"
        /\ labels = <<>>
        /\ (pc = "poll" => Has("insert") /\ Has("post") /\ Has("delete"))

\* C5: no failure of a step of the cycle ends the consume loop.
C5_LoopNeverTerminates == pc # "crashed"

\* C6: a cycle that posts the notification posts it once and, whatever
\* the status, the next and last call of the cycle is the delete of the
\* job's message.
C6_NotifyOnceThenAck ==
    Has("post") =>
        /\ Count("post") = 1
        /\ pc \in {"ack", "poll", "crashed"}
        /\ (pc = "ack" => calls[Len(calls)].op = "post")
        /\ (pc # "ack" =>
               /\ AckedLast
               /\ Count("delete") = 1
               /\ calls[Len(calls) - 1].op = "post")

C6_Witness ==
    /\ HasRes("post", "503")
    /\ HasRes("delete", "ok")
    /\ pc = "poll"

\* C7: when the insert fails no record is stored, and the cycle still
\* posts the notification and then deletes the message.
C7_SaveFailureDoesNotBlock ==
    HasRes("insert", "fail") =>
        /\ SavedNow = {}
        /\ pc \in {"notify", "ack", "poll", "crashed"}
        /\ (pc # "notify" => Count("post") = 1)
        /\ (pc \in {"poll", "crashed"} => AckedLast)

C7_Witness ==
    /\ HasRes("insert", "fail")
    /\ Has("post")
    /\ HasRes("delete", "ok")
    /\ pc = "poll"

\* C8: a fetched job whose output image is not on disk after run() is
\* abandoned: no upload, insert, post or delete, and the message stays
\* in the queue.
C8_MissingImageAbandons ==
    (Has("run") /\ ~fs[message].img /\ pc # "locate") =>
        /\ pc = "poll"
        /\ NoneOf({"delete", "upload", "insert", "post"})
        /\ SavedNow = {}
        /\ message \in queue

C8_Witness ==
    /\ HasRes("run", "ok")
    /\ ~fs[message].img
    /\ pc = "poll"
    /\ message \in queue

\* C9: with the output image on disk and the label file absent or empty,
\* parsing does not fail, labels is empty, a stored record has no
\* detections, the notification is posted and the message deleted.
C9_NoLabelsIsEmptyResult ==
    (Has("upload") /\ LabelEmpty) =>
        /\ pc \in {"parse", "persist", "notify", "ack", "poll", "crashed"}
        /\ labels = <<>>
        /\ \A i \in SavedNow : db[i].labels = <<>>
        /\ (pc \in {"poll", "crashed"} =>
               /\ Count("insert") = 1
               /\ Count("post") = 1
               /\ AckedLast)

C9_Witness ==
    /\ Has("upload")
    /\ ~fs[message].lbl.exists
    /\ pc = "poll"
    /\ HasRes("delete", "ok")
    /\ Has("post")
    /\ \E i \in SavedNow : db[i].labels = <<>>

\* C10: a job whose upload failed is not failed: its cycle ends with
\* the insert of a record without image reference, the post and the
\* delete, and a record stored after a successful upload carries the
\* reference the upload returned.
C10_UploadFailureDegrades ==
    /\ (HasRes("upload", "fail") /\ pc \in {"poll", "crashed"}) =>
           /\ Has("insert")
           /\ Has("post")
           /\ Has("delete")
    /\ Has("insert") =>
           \A i \in SavedNow :
               db[i].predicted_img_path =
                   (IF HasRes("upload", "ok") THEN RemoteRef(message) ELSE NoRef)

\* C11: for a job whose label file is non-empty and well-formed, labels
\* and a record stored for it have one entry per line of the file, in the
\* order of the file, and the class of entry i is the class-table entry
\* at the index that is the first token of line i.
WellFormed ==
    /\ fs[message].lbl.exists
    /\ fs[message].lbl.lines # <<>>
    /\ ParseOk(fs[message].lbl.lines)

MatchesFile(ls) ==
    LET f == fs[message].lbl.lines IN
    /\ Len(ls) = Len(f)
    /\ \A i \in 1..Len(f) :
         /\ ls[i].class = names[IntOf(f[i][1]) + 1]
         /\ ls[i].cx = FloatOf(f[i][2])
         /\ ls[i].cy = FloatOf(f[i][3])
         /\ ls[i].width = FloatOf(f[i][4])
         /\ ls[i].height = FloatOf(f[i][5])

C11_DetectionsMirrorLabelFile ==
    (Has("upload") /\ WellFormed /\ pc # "parse") =>
        /\ pc \in {"persist", "notify", "ack", "poll", "crashed"}
        /\ MatchesFile(labels)
        /\ \A i \in SavedNow : MatchesFile(db[i].labels)
        /\ (pc \in {"poll", "crashed"} => Has("insert") /\ AckedLast)

C11_Witness ==
    /\ HasRes("insert", "ok")
    /\ WellFormed
    /\ \E i \in SavedNow :
         /\ Len(db[i].labels) = 2
         /\ db[i].labels[1].class = "car"
         /\ db[i].labels[2].class = "person"
         /\ db[i].labels[1].height = 3

\* C12: the worker is strictly sequential: a receive_message call is made
\* only when the cycle of the job received before is over, by its
\* acknowledgment or discard (delete_message done), by abandonment (fetch
\* failed, or no output image after run) or because the poll was empty;
\* it is never made while a job is between its receive and that end.
CycleClosed ==
    /\ pc = "poll"
    /\ \/ calls = <<>>
       \/ LET c == calls[Len(calls)] IN
            \/ c.op = "delete" /\ c.res = "ok"
            \/ c.op = "download" /\ c.res = "fail"
            \/ c.op = "run" /\ ~fs[message].img
            \/ c.op = "receive" /\ c.res = "empty"

ReceiveCalled == calls' # calls /\ Len(calls') = 1 /\ calls'[1].op = "receive"

C12_StrictlySequential == [][ReceiveCalled => CycleClosed]_vars

C12_Witness ==
    /\ cycle = 2
    /\ pc = "decode"
    /\ Len(calls) = 1
    /\ calls[1].res = "ok"

\* C13: processing a message again after a record was already stored for
\* it does not stop the worker and adds a second, complete record: every
\* change of the collection appends exactly the summary of the current
\* cycle, leaves all earlier records as they were, and is followed by
\* the notify step.
Complete(rec) ==
    /\ rec.prediction_id = message
    /\ rec.time = cycle
    /\ rec.labels = labels
    /\ rec.original_img_path = original_img_path
    /\ rec.predicted_img_path = uploaded_predicted_img_path
    /\ rec.chat_id = message_body.chat_id

C13_RedeliveryAppendsIndependentRecord ==
    [][db' # db =>
         /\ Len(db') = Len(db) + 1
         /\ SubSeq(db', 1, Len(db)) = db
         /\ Complete(db'[Len(db')])
         /\ pc' = "notify"]_vars

C13_Witness ==
    /\ Len(db) = 2
    /\ db[1].prediction_id = db[2].prediction_id
    /\ db[1].time = 1
    /\ db[2].time = 2
    /\ Complete(db[2])
    /\ pc = "poll"
    /\ HasRes("delete", "ok")

\* C14: a validated job is acknowledged as the last step of its cycle:
\* when delete_message is called for it, the calls of the cycle are, in
\* this order, the receive, a successful download, run, upload, insert,
\* post and the delete. The calls of every cycle are an initial part of
\* that sequence (so no post comes before the insert), except the
\* discard, which is the receive followed by the delete; a cycle that
\* ends without delete has made no insert and no post.
Ops == [i \in DOMAIN calls |-> calls[i].op]

FullCycle == <<"receive", "download", "run", "upload", "insert", "post", "delete">>

IsPrefix(s, t) == Len(s) <= Len(t) /\ s = SubSeq(t, 1, Len(s))

C14_AckIsLastStep ==
    /\ \/ IsPrefix(Ops, FullCycle)
       \/ Ops = <<"receive", "delete">> /\ ~ValidateOk(message_body)
    /\ (Has("delete") /\ ValidateOk(message_body)) =>
           /\ Ops = FullCycle
           /\ calls[2].res = "ok"
           /\ AckedLast
    /\ (pc = "poll" /\ ~Has("delete")) => NoneOf({"insert", "post"})
    /\ (Has("delete") /\ ~ValidateOk(message_body)) => NoneOf({"insert", "post"})

C14_Witness ==
    /\ Ops = FullCycle
    /\ ValidateOk(message_body)
    /\ pc = "poll"
    /\ message \notin queue

C16_NoDuplicateFromAbandonment ==
    /\ Count("insert") <= 1
    /\ Count("post") <= 1
    /\ Cardinality(SavedNow) <= 1
    /\ (pc = "poll" /\ message # 0 /\ message \in queue) =>
           /\ NoneOf({"insert", "post", "delete"})
           /\ SavedNow = {}
           /\ \/ HasRes("download", "fail")
              \/ Has("run") /\ ~fs[message].img
    /\ \A i, j \in DOMAIN db :
           db[i].prediction_id = db[j].prediction_id => i = j

C16_Witness ==
    /\ cycle = 2
    /\ MsgIds = {message}
    /\ Len(db) = 1
    /\ db[1].prediction_id = message
    /\ db[1].time = 2
    /\ Count("post") = 1
    /\ HasRes("delete", "ok")

\* C17: a cycle uses only the artifacts its own run() wrote: when run()
\* raised without writing anything, an output image and a label file left
\* under static/data/<id>/ by an earlier attempt do not pass the existence
\* test (nothing is uploaded) and no detections of theirs are stored.
C17_StaleArtifactsIgnored ==
    (HasRes("run", "raise") /\ written = NoWrite) =>
        /\ ~Has("upload")
        /\ \A i \in SavedNow : db[i].labels = <<>>

\* C18: every delete_message of a cycle carries the receipt handle that
\* this cycle's receive_message returned, a cycle makes at most one
\* delete_message, and a cycle whose poll returned no message (or raised)
\* makes no further call at all.
C18_DeleteUsesCurrentHandle ==
    /\ Count("delete") <= 1
    /\ \A i \in DOMAIN calls :
           calls[i].op = "delete" =>
               /\ calls[1].op = "receive"
               /\ calls[1].res = "ok"
               /\ calls[i].h = calls[1].h
               /\ calls[i].h.msg = message
               /\ calls[i].h.n = cycle
    /\ (calls # <<>> /\ calls[1].res # "ok") =>
           /\ Len(calls) = 1
           /\ calls[1].op = "receive"
           /\ pc \in {"poll", "crashed"}
           /\ message = 0

C18_Witness ==
    /\ cycle = 2
    /\ HasRes("delete", "ok")
    /\ calls[Len(calls)].h = [msg |-> message, n |-> 2]
    /\ message \notin queue

\* C19: a field that is present with a falsy value ('', null, 0) is
\* treated like a missing one: the job is deleted with its own handle as
\* the only call of the cycle. A job whose three fields are all present
\* and non-empty is never discarded: the loop goes on to the fetch of
\* line 95, and download_photo_from_s3 is called once file_path is a str.
FalsyPresent(b) == b.kind = "dict" /\ \E k \in Keys : b[k] \in {"''", "None", "0"}

NonEmpty(b) == b.kind = "dict" /\ \A k \in Keys : b[k] \notin {Absent, "''", "None", "0"}

C19_FalsyFieldIsMissingField ==
    /\ (FalsyPresent(message_body) /\ pc # "validate") =>
           /\ pc \in {"poll", "crashed"}
           /\ Ops = <<"receive", "delete">>
           /\ AckedLast
           /\ SavedNow = {}
           /\ (pc = "poll" => message \notin queue)
    /\ (NonEmpty(message_body) /\ pc # "validate") =>
           /\ Len(calls) >= 2 => calls[2].op = "download"
           /\ (Len(calls) = 1 => pc \in {"fetch", "crashed"})
           /\ (Len(calls) = 1 /\ pc = "crashed") => message_body.file_path = "7"
           /\ (message_body.file_path = ValidPath /\ pc # "fetch") => Has("download")

C19_Witness ==
    /\ message_body.kind = "dict"
    /\ message_body.photo_id = "''"
    /\ pc = "poll"
    /\ HasRes("delete", "ok")
    /\ message \notin queue

====
